---- MODULE Spec2Model ----
(***************************************************************************)
(* iCAM06 tone-mapping pipeline: fastbiliateral_blur.py and iCAM06.py.     *)
(*                                                                         *)
(* Each function of the two files runs as a call frame (a record of its    *)
(* parameters and locals) that is advanced statement by statement; pc is   *)
(* the statement about to run, named <function>_<source line>.             *)
(*                                                                         *)
(* Numbers.  Array elements are IEEE doubles in the source.  The model     *)
(* keeps them as exact rationals [num, den] (den > 0, lowest terms) with   *)
(* the three IEEE specials the code can produce: NaN = 0/0, +inf = 1/0,    *)
(* -inf = -1/0.  Rounding error is therefore not modelled; division by     *)
(* zero, NaN propagation and the order of operations are.                  *)
(***************************************************************************)
EXTENDS Integers, Sequences, FiniteSets, TLC

\* ------------------------------------------------------------------ bounds
\* Largest number of pixels (height * width) of an image drawn for a call.
MaxPixels == 3

\* The image shapes <<height, width>> within the bound.
Shapes == {s \in (1..MaxPixels) \X (1..MaxPixels) : s[1] * s[2] <= MaxPixels}

None == "none"

\* ------------------------------------------------- IEEE-like exact numbers
RECURSIVE Gcd(_, _)
Gcd(a, b) == IF b = 0 THEN a ELSE Gcd(b, a % b)

IAbs(a) == IF a < 0 THEN -a ELSE a

ISign(a) == IF a < 0 THEN -1 ELSE IF a > 0 THEN 1 ELSE 0

\* The rational nn/dd (dd # 0) in lowest terms with a positive denominator.
QNorm(nn, dd) ==
    LET s == IF dd < 0 THEN -1 ELSE 1
        g == Gcd(IAbs(nn), IAbs(dd))
    IN  [num |-> (s * nn) \div g, den |-> (s * dd) \div g]

Q(nn, dd) == QNorm(nn, dd)

QInt(a) == [num |-> a, den |-> 1]

NaN == [num |-> 0, den |-> 0]

Inf(s) == [num |-> s, den |-> 0]

IsNaN(a) == a.den = 0 /\ a.num = 0

IsInf(a) == a.den = 0 /\ a.num # 0

IsFinite(a) == a.den > 0

QSign(a) == ISign(a.num)

\* a + b
QAdd(a, b) ==
    IF IsNaN(a) \/ IsNaN(b) THEN NaN
    ELSE IF IsInf(a) /\ IsInf(b) THEN (IF a.num = b.num THEN a ELSE NaN)
    ELSE IF IsInf(a) THEN a
    ELSE IF IsInf(b) THEN b
    ELSE QNorm(a.num * b.den + b.num * a.den, a.den * b.den)

QNeg(a) == [num |-> -a.num, den |-> a.den]

\* a - b
QSub(a, b) == QAdd(a, QNeg(b))

\* a * b  (0 * inf = NaN)
QMul(a, b) ==
    IF IsNaN(a) \/ IsNaN(b) THEN NaN
    ELSE IF IsInf(a) \/ IsInf(b)
         THEN (IF QSign(a) * QSign(b) = 0 THEN NaN ELSE Inf(QSign(a) * QSign(b)))
    ELSE QNorm(a.num * b.num, a.den * b.den)

\* a / b as numpy divides doubles: 0/0 = NaN, x/0 = +-inf, no exception.
QDiv(a, b) ==
    IF IsNaN(a) \/ IsNaN(b) THEN NaN
    ELSE IF IsInf(a) THEN (IF IsInf(b) THEN NaN
                           ELSE Inf(a.num * (IF b.num < 0 THEN -1 ELSE 1)))
    ELSE IF IsInf(b) THEN QInt(0)
    ELSE IF b.num = 0 THEN (IF a.num = 0 THEN NaN ELSE Inf(QSign(a)))
    ELSE QNorm(a.num * b.den, a.den * b.num)

\* abs(a)
QAbs(a) == [num |-> IAbs(a.num), den |-> a.den]

\* a < b, a <= b : false when either side is NaN.
QLt(a, b) ==
    IF IsNaN(a) \/ IsNaN(b) THEN FALSE
    ELSE IF IsInf(a) \/ IsInf(b)
         THEN (IF IsInf(a) /\ IsInf(b) THEN a.num < b.num
               ELSE IF IsInf(a) THEN a.num < 0 ELSE b.num > 0)
    ELSE a.num * b.den < b.num * a.den

QLe(a, b) == ~IsNaN(a) /\ ~IsNaN(b) /\ (a = b \/ QLt(a, b))

\* np.maximum / np.minimum of two scalars: NaN if either is NaN.
np_maximum(a, b) ==
    IF IsNaN(a) \/ IsNaN(b) THEN NaN ELSE IF QLt(a, b) THEN b ELSE a

np_minimum(a, b) ==
    IF IsNaN(a) \/ IsNaN(b) THEN NaN ELSE IF QLt(b, a) THEN b ELSE a

\* a ** k for an integer exponent k >= 0.
RECURSIVE QPow(_, _)
QPow(a, k) == IF k = 0 THEN QInt(1) ELSE QMul(a, QPow(a, k - 1))

\* int(round(a)) for a finite a >= 0: Python rounds halves to the even integer.
RoundHalfEven(a) ==
    LET fl  == a.num \div a.den
        rem == a.num - fl * a.den
    IN  IF 2 * rem < a.den THEN fl
        ELSE IF 2 * rem > a.den THEN fl + 1
        ELSE IF fl % 2 = 0 THEN fl ELSE fl + 1

\* ------------------------------------------------------------------ arrays
\* A 2-D array is a function row index -> (column index -> element), 0-based.
Rows(A) == Cardinality(DOMAIN A)

Cols(A) == Cardinality(DOMAIN A[0])

Full(h, w, v) == [r \in 0..(h - 1) |-> [c \in 0..(w - 1) |-> v]]

Cells(A) == {<<r, c>> : r \in DOMAIN A, c \in DOMAIN A[0]}

Elems(A) == {A[p[1]][p[2]] : p \in Cells(A)}

Arrays(h, w, S) == [0..(h - 1) -> [0..(w - 1) -> S]]

\* The maximum of the first row only: a reduction that stops short of the
\* whole image.
np_max_first_row(A) ==
    LET row == {A[0][c] : c \in 0..(Cols(A) - 1)}
    IN  IF \E v \in row : IsNaN(v) THEN NaN
        ELSE CHOOSE v \in row : \A u \in row : QLe(u, v)

\* np.max / np.min over a whole array: NaN if any element is NaN.
np_max(A) ==
    IF \E v \in Elems(A) : IsNaN(v) THEN NaN
    ELSE CHOOSE v \in Elems(A) : \A u \in Elems(A) : QLe(u, v)

np_min(A) ==
    IF \E v \in Elems(A) : IsNaN(v) THEN NaN
    ELSE CHOOSE v \in Elems(A) : \A u \in Elems(A) : QLe(v, u)

\* A[::s, ::s]
Stride(A, s) ==
    [r \in 0..((Rows(A) + s - 1) \div s - 1) |->
        [c \in 0..((Cols(A) + s - 1) \div s - 1) |-> A[r * s][c * s]]]

\* A[r, c] block-replicated s times along both axes, cropped to h x w:
\* np.repeat(np.repeat(A, s, axis=0), s, axis=1)[:h, :w]
RepeatCrop(A, s, h, w) ==
    [r \in 0..(h - 1) |-> [c \in 0..(w - 1) |-> A[r \div s][c \div s]]]

\* Elementwise map over one array and over two arrays of one shape.
Map1(F(_), A) == [r \in DOMAIN A |-> [c \in DOMAIN A[r] |-> F(A[r][c])]]

Map2(F(_, _), A, B) ==
    [r \in DOMAIN A |-> [c \in DOMAIN A[r] |-> F(A[r][c], B[r][c])]]

\* --------------------------------------------------------------- variables
VARIABLES
    pc,      \* statement about to run, "<function>_<line>", or "done"
    args,    \* the caller's argument arrays (objects the callee may alias)
    args0,   \* history: the contents of args when the call was made
    dist,    \* frame of idl_dist
    pbf,     \* frame of piecewise_bilateral_filter
    fbf,     \* frame of fast_bilateral_filter
    wHist,   \* history: [jJ, intW] of each segment accumulated so far
    blr,     \* frame of blur
    tc,      \* frame of iCAM06_TC
    ipt,     \* frame of iCAM06_IPT
    inv      \* frame of iCAM06_invcat

vars == <<pc, args, args0, dist, pbf, fbf, wHist, blr, tc, ipt, inv>>

distVars == <<dist>>

filterVars == <<pbf, fbf, wHist>>

blurVars == <<blr>>

colourVars == <<tc, ipt, inv>>

IdleDist == dist = None

IdleFilter == pbf = None /\ fbf = None /\ wHist = <<>>

IdleBlur == blr = None

IdleColour == tc = None /\ ipt = None /\ inv = None

\* ================================================================ idl_dist
\* Largest m and n drawn for a direct call of idl_dist.
MaxDist == 7

IMin(a, b) == IF a < b THEN a ELSE b

\* np.sqrt of a non-negative integer, kept exact as the surd sqrt(k).
np_sqrt(k) == [sq |-> k]

Square(s) == s.sq

\* fastbiliateral_blur.py:16  y, x = np.ogrid[:m, :n]
ogrid(m, n) == [y |-> 0..(m - 1), x |-> 0..(n - 1)]

\* The distance map with wrap-around at n and m instead of n-1 and m-1 (the
\* DIST function of IDL), which is not reflection-symmetric.
idl_dist_wrap(m, n) ==
    LET g == ogrid(m, n)
    IN  [y \in g.y |-> [x \in g.x |->
            np_sqrt(IMin(x, n - x) * IMin(x, n - x)
                    + IMin(y, m - y) * IMin(y, m - y))]]

\* fastbiliateral_blur.py:17
idl_dist(m, n) ==
    LET g == ogrid(m, n)
    IN  [y \in g.y |-> [x \in g.x |->
            np_sqrt(IMin(x, n - 1 - x) * IMin(x, n - 1 - x)
                    + IMin(y, m - 1 - y) * IMin(y, m - 1 - y))]]

InitDist ==
    /\ pc = "idl_dist_16"
    /\ \E m \in 1..MaxDist, n \in 1..MaxDist :
           dist = [m |-> m, n |-> n, grid |-> None, ret |-> None]
    /\ args = None /\ args0 = None
    /\ IdleFilter /\ IdleBlur /\ IdleColour

idl_dist_16 ==
    /\ pc = "idl_dist_16"
    /\ dist' = [dist EXCEPT !.grid = ogrid(dist.m, dist.n)]
    /\ pc' = "idl_dist_17"
    /\ UNCHANGED <<args, args0, filterVars, blurVars, colourVars>>

idl_dist_17 ==
    /\ pc = "idl_dist_17"
    /\ dist' = [dist EXCEPT !.ret = idl_dist(dist.m, dist.n)]
    /\ pc' = "done"
    /\ UNCHANGED <<args, args0, filterVars, blurVars, colourVars>>

NextDist == idl_dist_16 \/ idl_dist_17

SpecDist == InitDist /\ [][NextDist]_vars

\* ==================================================== piecewise_bilateral_filter
\* fastbiliateral_blur.py:23
sigma_r == Q(35, 100)

\* Element values drawn for a log-domain image: 0, 0.175 and 0.525.  Their
\* differences divided by sigma_r are 0.5, 1 and 1.5, so inSeg takes the
\* values 0 (also with max > min), 1 and 2, and 0.175 lies strictly between
\* two representative intensities when inSeg = 2.
LogLevels == {Q(0, 1), Q(7, 40), Q(21, 40)}

\* Subsample factors drawn for a direct call.
ZFactors == {1, 2}

Uniform(A) == Cardinality(Elems(A)) = 1

\* fastbiliateral_blur.py:26  inSeg = int(round((maxI - minI) / sigma_r))
inSeg_of(maxI, minI) == RoundHalfEven(QDiv(QSub(maxI, minI), sigma_r))

\* fastbiliateral_blur.py:38  value_i = minI + j * (maxI - minI) / inSeg
value_i_of(j, minI, maxI, inSeg) ==
    QAdd(minI, QDiv(QMul(QInt(j), QSub(maxI, minI)), QInt(inSeg)))

\* The tent of line 45 without its factor inSeg: a tent as wide as the whole
\* intensity range, whatever the number of segments.
TentWeight_unscaled(p, value_i, inSeg, maxI, minI) ==
    np_maximum(
        QSub(QInt(1), QDiv(QAbs(QSub(p, value_i)), QSub(maxI, minI))),
        QInt(0))

\* fastbiliateral_blur.py:45, one element:
\* np.maximum(1 - abs(p - value_i) * inSeg / (maxI - minI), 0)
TentWeight(p, value_i, inSeg, maxI, minI) ==
    np_maximum(
        QSub(QInt(1),
             QDiv(QMul(QAbs(QSub(p, value_i)), QInt(inSeg)), QSub(maxI, minI))),
        QInt(0))

\* The range weight exp(-0.5 * ((ip - value_i) / sigma_r) ** 2) of line 39 is
\* below the denominator floor 1e-10 of line 40 iff
\* ((ip - value_i) / sigma_r) ** 2 > 2 ln(1e10) = 46.05...
BelowFloor(ip, value_i) ==
    QLt(Q(4605, 100), QPow(QDiv(QSub(ip, value_i), sigma_r), 2))

\* fastbiliateral_blur.py:27-34 and 39-43: the low-resolution bilateral
\* response jJp = sjHp / jKp.  np.exp and the FFT pair are numeric
\* collaborators with irrational results, so the quotient is kept as the set
\* of outcomes that decide the callers' behaviour:
\*   - value_i is NaN: jGp is NaN everywhere and so is every transform of it;
\*   - Ip is constant (= c): jGp is a constant g, the kernel has unit DC gain
\*     (fs[0, 0] = 1, line 32), so sjHp = g * c and jKp = max(g, 1e-10): the
\*     quotient is c, or c * g * 1e10 in (0, c) once g is below the floor;
\*   - otherwise a kernel-weighted combination of the samples of Ip: the
\*     samples themselves (narrow kernel) or a constant field at the least or
\*     greatest sample (wide kernel dominated by one intensity).
Responses(Ip, value_i) ==
    LET h == Rows(Ip)
        w == Cols(Ip)
    IN  IF IsNaN(value_i) THEN {Full(h, w, NaN)}
        ELSE IF Uniform(Ip)
             THEN (IF BelowFloor(Ip[0][0], value_i)
                   THEN {Full(h, w, QInt(0)), Ip}
                   ELSE {Ip})
        ELSE {Ip, Full(h, w, np_min(Ip)), Full(h, w, np_max(Ip))}

pbf_frame(imageIn, z, caller) ==
    [caller |-> caller, range_pos |-> 0,
     imageIn |-> imageIn, z |-> z, yDim |-> None, xDim |-> None,
     sigma_s |-> None, maxI |-> None, minI |-> None, inSeg |-> None,
     Ip |-> None, imageOut |-> None, intW |-> None, j |-> None,
     value_i |-> None, jJ |-> None, ret |-> None]

\* lines 21-22
pbf_21 ==
    /\ pc = "pbf_21"
    /\ pbf' = [pbf EXCEPT
                 !.yDim = Rows(pbf.imageIn),
                 !.xDim = Cols(pbf.imageIn),
                 !.sigma_s = QDiv(QDiv(QInt(2 * Cols(pbf.imageIn)), QInt(pbf.z)),
                                  QInt(100))]
    /\ pc' = "pbf_24"
    /\ UNCHANGED <<args, args0, fbf, wHist, distVars, blurVars, colourVars>>

\* lines 24-26: the whole-image reductions and the segment count
pbf_24 ==
    /\ pc = "pbf_24"
    /\ LET mx == np_max(pbf.imageIn)
           mn == np_min(pbf.imageIn)
       IN  pbf' = [pbf EXCEPT !.maxI = mx, !.minI = mn,
                              !.inSeg = inSeg_of(mx, mn)]
    /\ pc' = "pbf_27"
    /\ UNCHANGED <<args, args0, fbf, wHist, distVars, blurVars, colourVars>>

\* lines 27-36: kernel (kept inside Responses), Ip, and the zeroed outputs
pbf_27 ==
    /\ pc = "pbf_27"
    /\ pbf' = [pbf EXCEPT
                 !.Ip = Stride(pbf.imageIn, pbf.z),
                 !.imageOut = Full(pbf.yDim, pbf.xDim, QInt(0)),
                 !.intW = Full(pbf.yDim, pbf.xDim, QInt(0))]
    /\ pc' = "pbf_37"
    /\ UNCHANGED <<args, args0, fbf, wHist, distVars, blurVars, colourVars>>

\* line 37: for j in range(inSeg + 1)
pbf_37 ==
    /\ pc = "pbf_37"
    /\ IF pbf.range_pos < pbf.inSeg + 1
       THEN /\ pbf' = [pbf EXCEPT !.j = pbf.range_pos,
                                  !.range_pos = pbf.range_pos + 1]
            /\ pc' = "pbf_38"
       ELSE /\ pbf' = pbf
            /\ pc' = "pbf_47"
    /\ UNCHANGED <<args, args0, fbf, wHist, distVars, blurVars, colourVars>>

\* line 38
pbf_38 ==
    /\ pc = "pbf_38"
    /\ pbf' = [pbf EXCEPT
                 !.value_i = value_i_of(pbf.j, pbf.minI, pbf.maxI, pbf.inSeg)]
    /\ pc' = "pbf_39"
    /\ UNCHANGED <<args, args0, fbf, wHist, distVars, blurVars, colourVars>>

\* lines 39-44: response at low resolution, replicated z x z and cropped
pbf_39 ==
    /\ pc = "pbf_39"
    /\ \E jJp \in Responses(pbf.Ip, pbf.value_i) :
           pbf' = [pbf EXCEPT !.jJ = RepeatCrop(jJp, pbf.z, pbf.yDim, pbf.xDim)]
    /\ pc' = "pbf_45"
    /\ UNCHANGED <<args, args0, fbf, wHist, distVars, blurVars, colourVars>>

\* line 45: the tent weights, overwritten each iteration
intW_of(imageIn, value_i, inSeg, maxI, minI) ==
    [r \in DOMAIN imageIn |-> [c \in DOMAIN imageIn[r] |->
        TentWeight(imageIn[r][c], value_i, inSeg, maxI, minI)]]

pbf_45 ==
    /\ pc = "pbf_45"
    /\ pbf' = [pbf EXCEPT !.intW =
                 intW_of(pbf.imageIn, pbf.value_i, pbf.inSeg, pbf.maxI, pbf.minI)]
    /\ pc' = "pbf_46"
    /\ UNCHANGED <<args, args0, fbf, wHist, distVars, blurVars, colourVars>>

\* line 46: imageOut += jJ * intW
Accumulate(imageOut, jJ, intW) ==
    [r \in DOMAIN imageOut |-> [c \in DOMAIN imageOut[r] |->
        QAdd(imageOut[r][c], QMul(jJ[r][c], intW[r][c]))]]

pbf_46 ==
    /\ pc = "pbf_46"
    /\ pbf' = [pbf EXCEPT !.imageOut = Accumulate(pbf.imageOut, pbf.jJ, pbf.intW)]
    /\ wHist' = Append(wHist, [jJ |-> pbf.jJ, intW |-> pbf.intW])
    /\ pc' = "pbf_37"
    /\ UNCHANGED <<args, args0, fbf, distVars, blurVars, colourVars>>

\* line 47: return imageOut, to the caller or into line 57 of
\* fast_bilateral_filter
pbf_47 ==
    /\ pc = "pbf_47"
    /\ pbf' = [pbf EXCEPT !.ret = pbf.imageOut]
    /\ IF pbf.caller = "top"
       THEN fbf' = fbf /\ pc' = "done"
       ELSE fbf' = [fbf EXCEPT !.base_layer = pbf.imageOut] /\ pc' = "fbf_58"
    /\ UNCHANGED <<args, args0, wHist, distVars, blurVars, colourVars>>

NextPBF ==
    \/ pbf_21
    \/ pbf_24
    \/ pbf_27
    \/ pbf_37
    \/ pbf_38
    \/ pbf_39
    \/ pbf_45
    \/ pbf_46
    \/ pbf_47

InitPBF ==
    /\ pc = "pbf_21"
    /\ \E s \in Shapes :
         \E A \in Arrays(s[1], s[2], LogLevels), z \in ZFactors :
           /\ args = [imageIn |-> A]
           /\ pbf = pbf_frame(A, z, "top")
    /\ args0 = args
    /\ fbf = None /\ wHist = <<>>
    /\ IdleDist /\ IdleBlur /\ IdleColour

SpecPBF == InitPBF /\ [][NextPBF]_vars

\* ========================================================= fast_bilateral_filter
\* A linear-domain element is kept by its sign and the base-10 logarithm of
\* its magnitude, so that np.log10 and 10 ** x are exact:
\* 10 ** e = [sgn 1, lg e], 0 = [sgn 0, lg -inf].
Pow10(e) ==
    IF e = Inf(-1) THEN [sgn |-> 0, lg |-> Inf(-1)] ELSE [sgn |-> 1, lg |-> e]

LinZero == [sgn |-> 0, lg |-> Inf(-1)]

\* np.log10 of one element: -inf at 0, NaN below 0.
np_log10(v) ==
    IF v.sgn = 1 THEN v.lg ELSE IF v.sgn = 0 THEN Inf(-1) ELSE NaN

\* a * b of two linear-domain elements.
LinMul(a, b) ==
    IF a.sgn = 0 \/ b.sgn = 0
    THEN (IF IsNaN(a.lg) \/ IsNaN(b.lg) THEN [sgn |-> 1, lg |-> NaN] ELSE LinZero)
    ELSE [sgn |-> a.sgn * b.sgn, lg |-> QAdd(a.lg, b.lg)]

\* v < 10 ** e  (false for NaN)
LinLtPow10(v, e) == v.sgn <= 0 \/ QLt(v.lg, e)

\* Element values drawn for a linear-domain image: 0 (below the floor) and
\* 1e-4 * 10 ** l for the log levels l.
LinLevels == {LinZero} \cup {Pow10(QAdd(QInt(-4), l)) : l \in LogLevels}

\* fastbiliateral_blur.py:51-54
z_of(h, w) == IF IMin(h, w) < 1024 THEN 2 ELSE 4

\* fastbiliateral_blur.py:55  img[img < 1e-4] = 1e-4
FloorClamp(img) ==
    [r \in DOMAIN img |-> [c \in DOMAIN img[r] |->
        IF LinLtPow10(img[r][c], QInt(-4)) THEN Pow10(QInt(-4)) ELSE img[r][c]]]

\* fastbiliateral_blur.py:60  detail_layer[detail_layer > 12] = 0
ZeroOutliers(detail) ==
    [r \in DOMAIN detail |-> [c \in DOMAIN detail[r] |->
        IF QLt(QInt(12), detail[r][c]) THEN QInt(0) ELSE detail[r][c]]]

fbf_frame ==
    [z |-> None, logimg |-> None, base_layer |-> None, detail_layer |-> None,
     ret |-> None]

\* lines 51-54.  img is the caller's array object args.img.
fbf_51 ==
    /\ pc = "fbf_51"
    /\ fbf' = [fbf EXCEPT !.z = z_of(Rows(args.img), Cols(args.img))]
    /\ pc' = "fbf_55"
    /\ UNCHANGED <<args, args0, pbf, wHist, distVars, blurVars, colourVars>>

\* line 55: a masked assignment into img, i.e. into the caller's array
fbf_55 ==
    /\ pc = "fbf_55"
    /\ args' = [args EXCEPT !.img = FloorClamp(args.img)]
    /\ pc' = "fbf_56"
    /\ UNCHANGED <<args0, fbf, pbf, wHist, distVars, blurVars, colourVars>>

\* line 56
fbf_56 ==
    /\ pc = "fbf_56"
    /\ fbf' = [fbf EXCEPT !.logimg = Map1(np_log10, args.img)]
    /\ pc' = "fbf_57"
    /\ UNCHANGED <<args, args0, pbf, wHist, distVars, blurVars, colourVars>>

\* line 57: call piecewise_bilateral_filter(logimg, z)
fbf_57 ==
    /\ pc = "fbf_57"
    /\ pbf' = pbf_frame(fbf.logimg, fbf.z, "fbf")
    /\ pc' = "pbf_21"
    /\ UNCHANGED <<args, args0, fbf, wHist, distVars, blurVars, colourVars>>

\* line 58: base_layer = np.minimum(base_layer, np.max(logimg))
fbf_58 ==
    /\ pc = "fbf_58"
    /\ LET top == np_max(fbf.logimg)
           Clamp(b) == np_minimum(b, top)
       IN  fbf' = [fbf EXCEPT !.base_layer = Map1(Clamp, fbf.base_layer)]
    /\ pc' = "fbf_59"
    /\ UNCHANGED <<args, args0, pbf, wHist, distVars, blurVars, colourVars>>

\* line 59
fbf_59 ==
    /\ pc = "fbf_59"
    /\ fbf' = [fbf EXCEPT !.detail_layer = Map2(QSub, fbf.logimg, fbf.base_layer)]
    /\ pc' = "fbf_60"
    /\ UNCHANGED <<args, args0, pbf, wHist, distVars, blurVars, colourVars>>

\* line 60
fbf_60 ==
    /\ pc = "fbf_60"
    /\ fbf' = [fbf EXCEPT !.detail_layer = ZeroOutliers(fbf.detail_layer)]
    /\ pc' = "fbf_61"
    /\ UNCHANGED <<args, args0, pbf, wHist, distVars, blurVars, colourVars>>

\* lines 61-63
fbf_61 ==
    /\ pc = "fbf_61"
    /\ LET base   == Map1(Pow10, fbf.base_layer)
           detail == Map1(Pow10, fbf.detail_layer)
       IN  fbf' = [fbf EXCEPT !.base_layer = base, !.detail_layer = detail,
                              !.ret = <<base, detail>>]
    /\ pc' = "done"
    /\ UNCHANGED <<args, args0, pbf, wHist, distVars, blurVars, colourVars>>

NextFBF ==
    \/ fbf_51
    \/ fbf_55
    \/ fbf_56
    \/ fbf_57
    \/ fbf_58
    \/ fbf_59
    \/ fbf_60
    \/ fbf_61

InitFBF ==
    /\ pc = "fbf_51"
    /\ \E s \in Shapes :
         \E A \in Arrays(s[1], s[2], LinLevels) : args = [img |-> A]
    /\ args0 = args
    /\ fbf = fbf_frame
    /\ pbf = None /\ wHist = <<>>
    /\ IdleDist /\ IdleBlur /\ IdleColour

\* A call of either filter function.
InitFilter == InitPBF \/ InitFBF

NextFilter == NextPBF \/ NextFBF

SpecFilter == InitFilter /\ [][NextFilter]_vars

\* ======================================================================= blur
\* Largest height and width of an image drawn for a call of blur.
MaxBlurDim == 4

\* blur's arrays carry their shape, since a slice may be empty:
\* [h, w, at], at[r][c] the pixel (all channels) at row r and column c.
\* An input pixel is kept as the tag <<y, x>> of its place in the caller's
\* image; a pixel of np.zeros is ZeroPx.
ZeroPx == <<>>

TaggedImage(h, w) ==
    [h |-> h, w |-> w,
     at |-> [r \in 0..(h - 1) |-> [c \in 0..(w - 1) |-> <<r, c>>]]]

zeros(h, w) ==
    [h |-> h, w |-> w,
     at |-> [r \in 0..(h - 1) |-> [c \in 0..(w - 1) |-> ZeroPx]]]

\* The indices a slice a:b selects, and the same in reverse ([::-1]).
Range(a, b) == [i \in 1..(IF b > a THEN b - a ELSE 0) |-> a + i - 1]

Rev(sq) == [i \in 1..Len(sq) |-> sq[Len(sq) + 1 - i]]

\* Every q-th index of 0..k-1 ([::q]).
Every(k, q) == [i \in 1..((k + q - 1) \div q) |-> (i - 1) * q]

\* A[rs, cs] for index lists rs and cs.
Sl(A, rs, cs) ==
    [h |-> Len(rs), w |-> Len(cs),
     at |-> [r \in 0..(Len(rs) - 1) |-> [c \in 0..(Len(cs) - 1) |->
                A.at[rs[r + 1]][cs[c + 1]]]]]

\* numpy accepts A[rs, cs] = B when the shapes agree.
Fits(rs, cs, B) == Len(rs) = B.h /\ Len(cs) = B.w

Targets(rs, cs) ==
    {<<rs[i], cs[k]>> : i \in 1..Len(rs), k \in 1..Len(cs)}

\* A after A[rs, cs] = B.
SetSl(A, rs, cs, B) ==
    [A EXCEPT !.at =
        [r \in 0..(A.h - 1) |-> [c \in 0..(A.w - 1) |->
            IF <<r, c>> \in Targets(rs, cs)
            THEN LET i == CHOOSE i \in 1..Len(rs) : rs[i] = r
                     k == CHOOSE k \in 1..Len(cs) : cs[k] = c
                 IN  B.at[i - 1][k - 1]
            ELSE A.at[r][c]]]]

\* history: the number of assignments each cell of Y has received
Count(nw, rs, cs) ==
    [r \in DOMAIN nw |-> [c \in DOMAIN nw[r] |->
        IF <<r, c>> \in Targets(rs, cs) THEN nw[r][c] + 1 ELSE nw[r][c]]]

\* fastbiliateral_blur.py:79-91
blur_z(sy, sx) ==
    LET m == IMin(sy, sx)
    IN  IF m < 64 THEN 1
        ELSE IF m < 256 THEN 2
        ELSE IF m < 512 THEN 4
        ELSE IF m < 1024 THEN 8
        ELSE IF m < 2056 THEN 16
        ELSE 32

\* The right-hand sides of lines 98-114; h2 = yDim//2, w2 = xDim//2.
rhs_center(img, yDim, xDim) == img

rhs_left(img, yDim, xDim) ==
    Sl(img, Range(0, yDim), Rev(Range(0, xDim \div 2)))

\* The right band taken from the right half without the reversal of line 102.
rhs_right_unflipped(img, yDim, xDim) ==
    Sl(img, Range(0, yDim), Range(xDim \div 2, xDim))

rhs_right(img, yDim, xDim) ==
    Sl(img, Range(0, yDim), Rev(Range(xDim \div 2, xDim)))

rhs_top(img, yDim, xDim) ==
    Sl(img, Rev(Range(0, yDim \div 2)), Range(0, xDim))

rhs_bottom(img, yDim, xDim) ==
    Sl(img, Rev(Range(yDim \div 2, yDim)), Range(0, xDim))

rhs_top_left(img, yDim, xDim) ==
    Sl(img, Rev(Range(0, yDim \div 2)), Rev(Range(0, xDim \div 2)))

rhs_top_right(img, yDim, xDim) ==
    Sl(img, Rev(Range(0, yDim \div 2)), Rev(Range(xDim \div 2, xDim)))

rhs_bottom_right(img, yDim, xDim) ==
    Sl(img, Rev(Range(yDim \div 2, yDim)), Rev(Range(xDim \div 2, xDim)))

rhs_bottom_left(img, yDim, xDim) ==
    Sl(img, Rev(Range(yDim \div 2, yDim)), Rev(Range(0, xDim \div 2)))

\* The row and column bands of Y the left-hand sides select.
MidRows(yDim) == Range(yDim \div 2, yDim \div 2 + yDim)

TopRows(yDim) == Range(0, yDim \div 2)

BottomRows(yDim) == Range(yDim \div 2 + yDim, 2 * yDim)

MidCols(xDim) == Range(xDim \div 2, xDim \div 2 + xDim)

LeftCols(xDim) == Range(0, xDim \div 2)

RightCols(xDim) == Range(xDim \div 2 + xDim, 2 * xDim)

blur_frame ==
    [sy |-> None, sx |-> None, sz |-> None, z |-> None, img |-> None,
     yDim |-> None, xDim |-> None, Y |-> None, nwrites |-> None,
     white |-> None, ret |-> None]

\* One slice assignment Y[rs, cs] = B of lines 98-114.
blur_assign(here, next, rs, cs, B) ==
    /\ pc = here
    /\ IF Fits(rs, cs, B)
       THEN /\ blr' = [blr EXCEPT !.Y = SetSl(blr.Y, rs, cs, B),
                                  !.nwrites = Count(blr.nwrites, rs, cs)]
            /\ pc' = next
       ELSE /\ blr' = blr
            /\ pc' = "ValueError"
    /\ UNCHANGED <<args, args0, distVars, filterVars, colourVars>>

\* lines 78-91
blur_78 ==
    /\ pc = "blur_78"
    /\ blr' = [blr EXCEPT !.sy = args.img.h, !.sx = args.img.w, !.sz = 3,
                          !.z = blur_z(args.img.h, args.img.w)]
    /\ pc' = "blur_92"
    /\ UNCHANGED <<args, args0, distVars, filterVars, colourVars>>

\* line 92: img is rebound to a strided view; nothing is written
blur_92 ==
    /\ pc = "blur_92"
    /\ blr' = [blr EXCEPT !.img = Sl(args.img, Every(blr.sy, blr.z),
                                     Every(blr.sx, blr.z))]
    /\ pc' = "blur_94"
    /\ UNCHANGED <<args, args0, distVars, filterVars, colourVars>>

\* lines 94-96
blur_94 ==
    /\ pc = "blur_94"
    /\ blr' = [blr EXCEPT
                 !.yDim = blr.img.h, !.xDim = blr.img.w,
                 !.Y = zeros(2 * blr.img.h, 2 * blr.img.w),
                 !.nwrites = Full(2 * blr.img.h, 2 * blr.img.w, 0)]
    /\ pc' = "blur_98"
    /\ UNCHANGED <<args, args0, distVars, filterVars, colourVars>>

blur_98 ==
    blur_assign("blur_98", "blur_100", MidRows(blr.yDim), MidCols(blr.xDim),
                rhs_center(blr.img, blr.yDim, blr.xDim))

blur_100 ==
    blur_assign("blur_100", "blur_102", MidRows(blr.yDim), LeftCols(blr.xDim),
                rhs_left(blr.img, blr.yDim, blr.xDim))

blur_102 ==
    blur_assign("blur_102", "blur_104", MidRows(blr.yDim), RightCols(blr.xDim),
                rhs_right(blr.img, blr.yDim, blr.xDim))

blur_104 ==
    blur_assign("blur_104", "blur_106", TopRows(blr.yDim), MidCols(blr.xDim),
                rhs_top(blr.img, blr.yDim, blr.xDim))

blur_106 ==
    blur_assign("blur_106", "blur_108", BottomRows(blr.yDim), MidCols(blr.xDim),
                rhs_bottom(blr.img, blr.yDim, blr.xDim))

blur_108 ==
    blur_assign("blur_108", "blur_110", TopRows(blr.yDim), LeftCols(blr.xDim),
                rhs_top_left(blr.img, blr.yDim, blr.xDim))

blur_110 ==
    blur_assign("blur_110", "blur_112", TopRows(blr.yDim), RightCols(blr.xDim),
                rhs_top_right(blr.img, blr.yDim, blr.xDim))

blur_112 ==
    blur_assign("blur_112", "blur_114", BottomRows(blr.yDim), RightCols(blr.xDim),
                rhs_bottom_right(blr.img, blr.yDim, blr.xDim))

blur_114 ==
    blur_assign("blur_114", "blur_116", BottomRows(blr.yDim), LeftCols(blr.xDim),
                rhs_bottom_left(blr.img, blr.yDim, blr.xDim))

\* lines 116-127: the Gaussian low-pass of Y through the FFT pair.  The
\* filtered pixel at <<r, c>> is an irrational combination of all of Y and is
\* kept as the term lowpass(r, c); white has the shape of Y.
blur_116 ==
    /\ pc = "blur_116"
    /\ blr' = [blr EXCEPT !.white =
                 [h |-> blr.Y.h, w |-> blr.Y.w,
                  at |-> [r \in 0..(blr.Y.h - 1) |-> [c \in 0..(blr.Y.w - 1) |->
                            [lowpass |-> <<r, c>>]]]]]
    /\ pc' = "blur_129"
    /\ UNCHANGED <<args, args0, distVars, filterVars, colourVars>>

\* line 129: A[yDim//2 : yDim//2 + yDim, xDim//2 : xDim//2 + xDim]
Crop(A, yDim, xDim) == Sl(A, MidRows(yDim), MidCols(xDim))

blur_129 ==
    /\ pc = "blur_129"
    /\ blr' = [blr EXCEPT !.white = Crop(blr.white, blr.yDim, blr.xDim)]
    /\ pc' = "blur_131"
    /\ UNCHANGED <<args, args0, distVars, filterVars, colourVars>>

\* line 131: cv2.resize(A, (sx, sy), interpolation=cv2.INTER_NEAREST):
\* destination index i reads source index min(floor(i * src / dst), src - 1).
Nearest(i, src, dst) == IMin((i * src) \div dst, src - 1)

resize_nearest(A, sx, sy) ==
    [h |-> sy, w |-> sx,
     at |-> [r \in 0..(sy - 1) |-> [c \in 0..(sx - 1) |->
                A.at[Nearest(r, A.h, sy)][Nearest(c, A.w, sx)]]]]

\* lines 131-132
blur_131 ==
    /\ pc = "blur_131"
    /\ LET w == resize_nearest(blr.white, blr.sx, blr.sy)
       IN  blr' = [blr EXCEPT !.white = w, !.ret = w]
    /\ pc' = "done"
    /\ UNCHANGED <<args, args0, distVars, filterVars, colourVars>>

NextBlur ==
    \/ blur_78
    \/ blur_92
    \/ blur_94
    \/ blur_98
    \/ blur_100
    \/ blur_102
    \/ blur_104
    \/ blur_106
    \/ blur_108
    \/ blur_110
    \/ blur_112
    \/ blur_114
    \/ blur_116
    \/ blur_129
    \/ blur_131

InitBlur ==
    /\ pc = "blur_78"
    /\ \E sy \in 1..MaxBlurDim, sx \in 1..MaxBlurDim :
           args = [img |-> TaggedImage(sy, sx)]
    /\ args0 = args
    /\ blr = blur_frame
    /\ IdleDist /\ IdleFilter /\ IdleColour

SpecBlur == InitBlur /\ [][NextBlur]_vars

\* ============================================================ colour stages
\* The colour matrices have four and five decimals and their inverses are
\* exact only over integers beyond 32 bits, so the colour stages compute on
\* exact rationals of unbounded integers: an integer is [sg, mag], sg its
\* sign and mag its magnitude in limbs of base 10^4, least significant first.
LimbBase == 10 ^ 4

RECURSIVE Strip(_)
Strip(sq) ==
    IF sq # <<>> /\ sq[Len(sq)] = 0 THEN Strip(SubSeq(sq, 1, Len(sq) - 1)) ELSE sq

\* Carry propagation over signed limbs: limbs in 0..LimbBase-1 and the
\* final carry, 0 (value >= 0) or -1 (value < 0).
RECURSIVE Propagate(_, _)
Propagate(sq, carry) ==
    IF sq = <<>>
    THEN IF carry = 0 \/ carry = -1
         THEN [limbs |-> <<>>, top |-> carry]
         ELSE LET r == Propagate(<<>>, carry \div LimbBase)
              IN  [limbs |-> <<carry % LimbBase>> \o r.limbs, top |-> r.top]
    ELSE LET v == Head(sq) + carry
             r == Propagate(Tail(sq), v \div LimbBase)
         IN  [limbs |-> <<v % LimbBase>> \o r.limbs, top |-> r.top]

\* The integer sum of sq[i] * LimbBase^(i-1), in canonical form.
Canon(sq) ==
    LET pos == Propagate(sq, 0)
    IN  IF pos.top = 0
        THEN LET mg == Strip(pos.limbs)
             IN  [sg |-> IF mg = <<>> THEN 0 ELSE 1, mag |-> mg]
        ELSE [sg |-> -1,
              mag |-> Strip(Propagate([i \in 1..Len(sq) |-> -sq[i]], 0).limbs)]

Big(a) == Canon(<<a>>)

Signed(a) == [i \in 1..Len(a.mag) |-> a.sg * a.mag[i]]

At(sq, i) == IF i \in 1..Len(sq) THEN sq[i] ELSE 0

BigAdd(a, b) ==
    LET x == Signed(a)
        y == Signed(b)
        len == IF Len(x) > Len(y) THEN Len(x) ELSE Len(y)
    IN  Canon([i \in 1..len |-> At(x, i) + At(y, i)])

BigNeg(a) == [sg |-> -a.sg, mag |-> a.mag]

RECURSIVE Convolve(_, _, _, _)
Convolve(x, y, k, i) ==
    IF i > Len(x) THEN 0
    ELSE x[i] * At(y, k + 1 - i) + Convolve(x, y, k, i + 1)

BigMul(a, b) ==
    LET x == Signed(a)
        y == Signed(b)
    IN  IF x = <<>> \/ y = <<>> THEN Big(0)
        ELSE Canon([k \in 1..(Len(x) + Len(y) - 1) |-> Convolve(x, y, k, 1)])

\* Exact rationals num/den of such integers (den # 0, not reduced).
R(a, b) == [num |-> Big(a), den |-> Big(b)]

RAdd(a, b) ==
    IF a.den = b.den THEN [num |-> BigAdd(a.num, b.num), den |-> a.den]
    ELSE [num |-> BigAdd(BigMul(a.num, b.den), BigMul(b.num, a.den)),
          den |-> BigMul(a.den, b.den)]

RNeg(a) == [num |-> BigNeg(a.num), den |-> a.den]

RSub(a, b) == RAdd(a, RNeg(b))

RMul(a, b) == [num |-> BigMul(a.num, b.num), den |-> BigMul(a.den, b.den)]

RDiv(a, b) == [num |-> BigMul(a.num, b.den), den |-> BigMul(a.den, b.num)]

\* a and b are the same number.
REq(a, b) == BigMul(a.num, b.den) = BigMul(b.num, a.den)

\* --------------------------------------------------------- changeColorSpace
\* Largest channel count (last axis) of an image drawn for a colour stage.
MaxChannels == 4

\* A colour image is [shape, data]: shape = <<height, width, channels>> and
\* data its elements in C order, as numpy lays them out.
Size(im) == Len(im.data)

\* iCAM06.py:5  inImage.reshape((-1, 3)) succeeds iff the size divides by 3.
Reshapable(im) == Size(im) % 3 = 0

\* iCAM06.py:5-7 for a reshapable image: rows of three consecutive elements,
\* each multiplied from the left into colorMatrix, laid back into shape.
changeColorSpace(inImage, colorMatrix) ==
    [shape |-> inImage.shape,
     data  |-> [i \in 1..Size(inImage) |->
                  LET row == (i - 1) \div 3
                      col == ((i - 1) % 3) + 1
                      px(k) == inImage.data[3 * row + k]
                  IN  RAdd(RAdd(RMul(px(1), colorMatrix[1][col]),
                                RMul(px(2), colorMatrix[2][col])),
                           RMul(px(3), colorMatrix[3][col]))]]

\* np.linalg.inv of a 3 x 3 matrix, exact: adjugate over determinant.
Minor(M, i, k) ==
    LET rs == IF i = 1 THEN <<2, 3>> ELSE IF i = 2 THEN <<1, 3>> ELSE <<1, 2>>
        cs == IF k = 1 THEN <<2, 3>> ELSE IF k = 2 THEN <<1, 3>> ELSE <<1, 2>>
    IN  RSub(RMul(M[rs[1]][cs[1]], M[rs[2]][cs[2]]),
             RMul(M[rs[1]][cs[2]], M[rs[2]][cs[1]]))

Cofactor(M, i, k) ==
    IF (i + k) % 2 = 0 THEN Minor(M, i, k) ELSE RNeg(Minor(M, i, k))

Det(M) ==
    RAdd(RAdd(RMul(M[1][1], Cofactor(M, 1, 1)), RMul(M[1][2], Cofactor(M, 1, 2))),
         RMul(M[1][3], Cofactor(M, 1, 3)))

np_linalg_inv(M) ==
    LET d == Det(M)
    IN  [i \in 1..3 |-> [k \in 1..3 |-> RDiv(Cofactor(M, k, i), d)]]

\* ------------------------------------------------------------ iCAM06_invcat
\* iCAM06.py:144-148, in units of 1e-4
M_invcat ==
    << <<R(8562, 10000),  R(3372, 10000),  R(-1934, 10000)>>,
       <<R(-8360, 10000), R(18327, 10000), R(33, 10000)>>,
       <<R(357, 10000),   R(-469, 10000),  R(10112, 10000)>> >>

\* iCAM06.py:149
Mi_invcat == np_linalg_inv(M_invcat)

\* Element values of the images drawn: the elements of an image are a window
\* of this cycle, starting at any of its places.
Pattern == <<3, -2, 0, 5, 1, -7, 4>>

PatternImage(h, w, c, seed) ==
    [shape |-> <<h, w, c>>,
     data  |-> [i \in 1..(h * w * c) |->
                  R(Pattern[((i - 1 + seed) % Len(Pattern)) + 1], 1)]]

\* iCAM06.py:150-151: the forward map and its inverse
invcat_forward(XYZ_img) == changeColorSpace(XYZ_img, M_invcat)

\* The backward step with the forward matrix M in place of its inverse.
invcat_backward_forward(RGB_img) == changeColorSpace(RGB_img, M_invcat)

invcat_backward(RGB_img) == changeColorSpace(RGB_img, Mi_invcat)

inv_frame == [RGB_img |-> <<>>, XYZ_adapt |-> <<>>, ret |-> <<>>]

\* line 150; the reshape of line 5 raises ValueError on a size not
\* divisible by 3 and otherwise regroups whatever it is given
inv_150 ==
    /\ pc = "inv_150"
    /\ IF Reshapable(args.XYZ_img)
       THEN /\ inv' = [inv EXCEPT !.RGB_img = invcat_forward(args.XYZ_img)]
            /\ pc' = "inv_151"
       ELSE /\ inv' = inv
            /\ pc' = "ValueError"
    /\ UNCHANGED <<args, args0, tc, ipt, distVars, filterVars, blurVars>>

\* line 151
inv_151 ==
    /\ pc = "inv_151"
    /\ inv' = [inv EXCEPT !.XYZ_adapt = invcat_backward(inv.RGB_img)]
    /\ pc' = "inv_152"
    /\ UNCHANGED <<args, args0, tc, ipt, distVars, filterVars, blurVars>>

\* line 152
inv_152 ==
    /\ pc = "inv_152"
    /\ inv' = [inv EXCEPT !.ret = inv.XYZ_adapt]
    /\ pc' = "done"
    /\ UNCHANGED <<args, args0, tc, ipt, distVars, filterVars, blurVars>>

NextInvcat == inv_150 \/ inv_151 \/ inv_152

InitInvcat ==
    /\ pc = "inv_150"
    /\ \E s \in Shapes, c \in 1..MaxChannels, seed \in 0..(Len(Pattern) - 1) :
           args = [XYZ_img |-> PatternImage(s[1], s[2], c, seed)]
    /\ args0 = args
    /\ inv = inv_frame
    /\ tc = None /\ ipt = None
    /\ IdleDist /\ IdleFilter /\ IdleBlur

SpecInvcat == InitInvcat /\ [][NextInvcat]_vars

\* ================================================================ iCAM06_TC
\* A three-channel image of the tone stages is a 2-D array of triples
\* <<ch0, ch1, ch2>> of rationals; Unset is a local not yet assigned.
Unset == [unset |-> TRUE]

Channel(A, k) == [r \in DOMAIN A |-> [c \in DOMAIN A[r] |-> A[r][c][k + 1]]]

\* np.repeat(A[:, :, np.newaxis], 3, axis=2)
Repeat3(A) == [r \in DOMAIN A |-> [c \in DOMAIN A[r] |-> <<A[r][c], A[r][c], A[r][c]>>]]

Grey(v) == <<v, v, v>>

\* Second-channel values drawn for white_img and for XYZ_adapt.
WhiteLevels == {QInt(1), QInt(4)}

AdaptLevels == {QInt(-1), QInt(2)}

Scale(k, A) == Map1(LAMBDA v : QMul(k, v), A)

\* iCAM06.py:46  La = 0.2 * white_img[..., 1]
tc_La(white_img) == Scale(Q(2, 10), Channel(white_img, 1))

\* iCAM06.py:64  Las = 2.26 * La
tc_Las(La) == Scale(Q(226, 100), La)

\* iCAM06.py:67  Sw = np.max(5 * La)
tc_Sw(La) == np_max(Scale(QInt(5), La))

\* iCAM06.py:69
tc_S(XYZ_adapt) == Repeat3(Map1(QAbs, Channel(XYZ_adapt, 1)))

\* iCAM06.py:75-77, one element of one channel
Bs_of(las, sv, Sw) ==
    LET u     == QDiv(QMul(QInt(5), las), Q(226, 100))
        term1 == QDiv(Q(5, 10),
                      QAdd(QInt(1),
                           QMul(Q(3, 10), QPow(QMul(u, QDiv(sv, Sw)), 3))))
        term2 == QDiv(Q(5, 10), QAdd(QInt(1), QMul(QInt(5), u)))
    IN  QAdd(term1, term2)

tc_Bs(Las_rep, S, Sw) ==
    [r \in DOMAIN S |-> [c \in DOMAIN S[r] |->
        [k \in 1..3 |-> Bs_of(Las_rep[r][c][k], S[r][c][k], Sw)]]]

tc_frame ==
    [La |-> <<>>, Las |-> <<>>, Sw |-> Unset, S |-> <<>>, Las_rep |-> <<>>,
     Bs |-> <<>>]

\* lines 37-43: M, Mi and the cone-space image RGB_img, read only by the
\* compression of lines 47-61
tc_37 ==
    /\ pc = "tc_37"
    /\ pc' = "tc_46"
    /\ UNCHANGED <<args, args0, tc, ipt, inv, distVars, filterVars, blurVars>>

tc_46 ==
    /\ pc = "tc_46"
    /\ tc' = [tc EXCEPT !.La = tc_La(args.white_img)]
    /\ pc' = "tc_47"
    /\ UNCHANGED <<args, args0, ipt, inv, distVars, filterVars, blurVars>>

\* lines 47-61: k, FL and the cone compression RGB_c raise reals to the
\* powers 1/3 and p; they read La and RGB_img and write none of La, Las, Sw,
\* S, Bs
tc_47 ==
    /\ pc = "tc_47"
    /\ pc' = "tc_64"
    /\ UNCHANGED <<args, args0, tc, ipt, inv, distVars, filterVars, blurVars>>

\* lines 64-66 (j and FLS are read only by lines 80-85)
tc_64 ==
    /\ pc = "tc_64"
    /\ tc' = [tc EXCEPT !.Las = tc_Las(tc.La)]
    /\ pc' = "tc_67"
    /\ UNCHANGED <<args, args0, ipt, inv, distVars, filterVars, blurVars>>

\* line 67: the whole-image reduction
tc_67 ==
    /\ pc = "tc_67"
    /\ tc' = [tc EXCEPT !.Sw = tc_Sw(tc.La)]
    /\ pc' = "tc_69"
    /\ UNCHANGED <<args, args0, ipt, inv, distVars, filterVars, blurVars>>

tc_69 ==
    /\ pc = "tc_69"
    /\ tc' = [tc EXCEPT !.S = tc_S(args.XYZ_adapt)]
    /\ pc' = "tc_72"
    /\ UNCHANGED <<args, args0, ipt, inv, distVars, filterVars, blurVars>>

\* lines 72-77: the first rod-response terms that read Sw
tc_72 ==
    /\ pc = "tc_72"
    /\ LET rep == Repeat3(tc.Las)
       IN  tc' = [tc EXCEPT !.Las_rep = rep, !.Bs = tc_Bs(rep, tc.S, tc.Sw)]
    /\ pc' = "tc_80"
    /\ UNCHANGED <<args, args0, ipt, inv, distVars, filterVars, blurVars>>

\* lines 80-92: As, the sum with RGB_c and the map back to XYZ raise reals
\* to the power p; they read Bs, S and Sw and write none of them
tc_80 ==
    /\ pc = "tc_80"
    /\ pc' = "done"
    /\ UNCHANGED <<args, args0, tc, ipt, inv, distVars, filterVars, blurVars>>

NextTC ==
    \/ tc_37
    \/ tc_46
    \/ tc_47
    \/ tc_64
    \/ tc_67
    \/ tc_69
    \/ tc_72
    \/ tc_80

InitTC ==
    /\ pc = "tc_37"
    /\ \E s \in Shapes :
         \E W \in Arrays(s[1], s[2], WhiteLevels),
            A \in Arrays(s[1], s[2], AdaptLevels) :
           args = [XYZ_adapt |-> Map1(Grey, A), white_img |-> Map1(Grey, W)]
    /\ args0 = args
    /\ tc = tc_frame
    /\ ipt = None /\ inv = None
    /\ IdleDist /\ IdleFilter /\ IdleBlur

\* =============================================================== iCAM06_IPT
\* Intensity values drawn for the IPT image, and the exponents gamma.
IptLevels == {QInt(0), Q(1, 2), QInt(2)}

Gammas == {1, 2}

\* A[:, :, 0] = B
SetChannel0(A, B) ==
    [r \in DOMAIN A |-> [c \in DOMAIN A[r] |-> <<B[r][c], A[r][c][2], A[r][c][3]>>]]

\* iCAM06.py:128
ipt_max_i(ipt_img) == np_max(Channel(ipt_img, 0))

\* iCAM06.py:129-131, the right-hand sides
ipt_divide(ipt_img, max_i) ==
    Map1(LAMBDA v : QDiv(v, max_i), Channel(ipt_img, 0))

ipt_power(ipt_img, gamma) ==
    Map1(LAMBDA v : QPow(v, gamma), Channel(ipt_img, 0))

ipt_multiply(ipt_img, max_i) ==
    Map1(LAMBDA v : QMul(v, max_i), Channel(ipt_img, 0))

ipt_frame == [ipt_img |-> <<>>, max_i |-> Unset]

\* lines 97-125: XYZ -> LMS -> IPT and the Hunt gain.  The powers 0.43, 1/3
\* and 0.15 are irrational, so the IPT image these lines produce is drawn:
\* any intensity per pixel, with zero chroma (a neutral image, whose chroma
\* stays zero under the gain of lines 124-125).
ipt_97 ==
    /\ pc = "ipt_97"
    /\ \E I \in Arrays(Rows(args.XYZ_img), Cols(args.XYZ_img), IptLevels) :
           ipt' = [ipt EXCEPT !.ipt_img =
                     Map1(LAMBDA v : <<v, QInt(0), QInt(0)>>, I)]
    /\ pc' = "ipt_128"
    /\ UNCHANGED <<args, args0, tc, inv, distVars, filterVars, blurVars>>

\* line 128: the whole-image reduction
ipt_128 ==
    /\ pc = "ipt_128"
    /\ ipt' = [ipt EXCEPT !.max_i = ipt_max_i(ipt.ipt_img)]
    /\ pc' = "ipt_129"
    /\ UNCHANGED <<args, args0, tc, inv, distVars, filterVars, blurVars>>

ipt_129 ==
    /\ pc = "ipt_129"
    /\ ipt' = [ipt EXCEPT !.ipt_img =
                 SetChannel0(ipt.ipt_img, ipt_divide(ipt.ipt_img, ipt.max_i))]
    /\ pc' = "ipt_130"
    /\ UNCHANGED <<args, args0, tc, inv, distVars, filterVars, blurVars>>

ipt_130 ==
    /\ pc = "ipt_130"
    /\ ipt' = [ipt EXCEPT !.ipt_img =
                 SetChannel0(ipt.ipt_img, ipt_power(ipt.ipt_img, args.gamma))]
    /\ pc' = "ipt_131"
    /\ UNCHANGED <<args, args0, tc, inv, distVars, filterVars, blurVars>>

ipt_131 ==
    /\ pc = "ipt_131"
    /\ ipt' = [ipt EXCEPT !.ipt_img =
                 SetChannel0(ipt.ipt_img, ipt_multiply(ipt.ipt_img, ipt.max_i))]
    /\ pc' = "ipt_134"
    /\ UNCHANGED <<args, args0, tc, inv, distVars, filterVars, blurVars>>

\* lines 134-140: the inverse transforms (power 1/0.43) read ipt_img and
\* write new arrays
ipt_134 ==
    /\ pc = "ipt_134"
    /\ pc' = "done"
    /\ UNCHANGED <<args, args0, tc, ipt, inv, distVars, filterVars, blurVars>>

NextIPT ==
    \/ ipt_97
    \/ ipt_128
    \/ ipt_129
    \/ ipt_130
    \/ ipt_131
    \/ ipt_134

InitIPT ==
    /\ pc = "ipt_97"
    /\ \E s \in Shapes, g \in Gammas :
           args = [XYZ_img  |-> TaggedImage(s[1], s[2]).at,
                   base_img |-> TaggedImage(s[1], s[2]).at,
                   gamma    |-> g]
    /\ args0 = args
    /\ ipt = ipt_frame
    /\ tc = None /\ inv = None
    /\ IdleDist /\ IdleFilter /\ IdleBlur

\* ======================================== the calls that reduce a whole image
InitReduce == InitPBF \/ InitTC \/ InitIPT

NextReduce == NextPBF \/ NextTC \/ NextIPT

SpecReduce == InitReduce /\ [][NextReduce]_vars

\* ================================================================ any call
Init == InitDist \/ InitFilter \/ InitBlur \/ InitInvcat \/ InitTC \/ InitIPT

Next ==
    NextDist \/ NextFilter \/ NextBlur \/ NextInvcat \/ NextTC \/ NextIPT

Spec == Init /\ [][Next]_vars

\* =================================================================== claims
RECURSIVE QSum(_)
QSum(sq) == IF sq = <<>> THEN QInt(0) ELSE QAdd(Head(sq), QSum(Tail(sq)))

\* v is the greatest (least) element of the whole array A.
WholeMax(v, A) ==
    /\ \A p \in Cells(A) : QLe(A[p[1]][p[2]], v)
    /\ \E p \in Cells(A) : A[p[1]][p[2]] = v

WholeMin(v, A) ==
    /\ \A p \in Cells(A) : QLe(v, A[p[1]][p[2]])
    /\ \E p \in Cells(A) : A[p[1]][p[2]] = v

\* C1: piecewise_bilateral_filter called on a uniform image returns the
\* image unchanged: every output pixel equals the input pixel and none is NaN.
C1_UniformPassThrough ==
    (pc = "done" /\ pbf.caller = "top" /\ Uniform(args0.imageIn)) =>
        \A p \in Cells(args0.imageIn) :
            /\ ~IsNaN(pbf.ret[p[1]][p[2]])
            /\ pbf.ret[p[1]][p[2]] = args0.imageIn[p[1]][p[2]]

\* C2: when fast_bilateral_filter returns, at every pixel
\* log10(base) + log10(detail) = log10(max(input, 1e-4)).
C2_LayersReconstructSource ==
    (pc = "done" /\ pbf.caller = "fbf") =>
        \A p \in Cells(args0.img) :
            LET src    == args0.img[p[1]][p[2]]
                floor  == IF LinLtPow10(src, QInt(-4)) THEN Pow10(QInt(-4)) ELSE src
                base   == fbf.ret[1][p[1]][p[2]]
                detail == fbf.ret[2][p[1]][p[2]]
            IN  QAdd(np_log10(base), np_log10(detail)) = np_log10(floor)

\* C3: when any operation returns, the caller's argument arrays hold exactly
\* the values they held when the call was made.
C3_ArgumentsUntouched == pc = "done" => args = args0

\* C4: a colour stage given an image whose channel count is not three never
\* returns a result; it ends in the shape-mismatch error.
C4_ShapeMismatchSignalled ==
    (pc \in {"inv_151", "inv_152", "done"}) => args0.XYZ_img.shape[3] = 3

\* C5: the distance map returned by idl_dist(m, n) is symmetric under row
\* and column reflection, is 0 at [0, 0], and its square at [y, x] is
\* min(x, n-1-x)^2 + min(y, m-1-y)^2.
C5_ToroidalSymmetry ==
    pc = "done" =>
        LET D  == dist.ret
            mm == dist.m
            nn == dist.n
        IN  /\ DOMAIN D = 0..(mm - 1)
            /\ D[0][0] = np_sqrt(0)
            /\ \A y \in 0..(mm - 1) :
                 /\ DOMAIN D[y] = 0..(nn - 1)
                 /\ \A x \in 0..(nn - 1) :
                      /\ D[y][x] = D[mm - 1 - y][x]
                      /\ D[y][x] = D[y][nn - 1 - x]
                      /\ Square(D[y][x])
                           = IMin(x, nn - 1 - x) * IMin(x, nn - 1 - x)
                             + IMin(y, mm - 1 - y) * IMin(y, mm - 1 - y)

\* A map with more rows than columns, both odd and even sizes inside.
C5_Witness == pc = "done" /\ dist.m = 5 /\ dist.n = 4

\* C6: iCAM06_invcat returns, for a three-channel image, an image of the
\* input's shape whose every element equals the input's (exact arithmetic).
C6_InvcatRoundTrip ==
    (pc = "done" /\ args0.XYZ_img.shape[3] = 3) =>
        /\ inv.ret.shape = args0.XYZ_img.shape
        /\ Len(inv.ret.data) = Len(args0.XYZ_img.data)
        /\ \A i \in 1..Len(inv.ret.data) :
               REq(inv.ret.data[i], args0.XYZ_img.data[i])

\* A returned three-pixel image with positive, negative and zero elements,
\* whose intermediate image differs from it.
C6_Witness ==
    /\ pc = "done"
    /\ args0.XYZ_img.shape = <<1, 3, 3>>
    /\ \E i \in 1..9 : args0.XYZ_img.data[i] = R(-7, 1)
    /\ \E i \in 1..9 : args0.XYZ_img.data[i] = R(0, 1)
    /\ \E i \in 1..9 : ~REq(inv.RGB_img.data[i], args0.XYZ_img.data[i])

\* C7: every segment j of 0..inSeg has a defined representative intensity
\* value_i, the first equal to min and the last equal to max.
C7_SegmentValuesDefined ==
    pc = "pbf_39" =>
        /\ IsFinite(pbf.value_i)
        /\ (pbf.j = 0 => pbf.value_i = pbf.minI)
        /\ (pbf.j = pbf.inSeg => pbf.value_i = pbf.maxI)

\* The reflection of index i (relative to the image) into 0..k-1 across the
\* nearest image edge.
Mirror(i, k) == IF i < 0 THEN -1 - i ELSE IF i >= k THEN 2 * k - 1 - i ELSE i

\* C8: once lines 98-114 have run, Y is 2*yDim x 2*xDim, its centred block
\* is the downsampled image, every cell has been assigned exactly once and
\* holds the image pixel at the mirrored index (so no zero survives), and
\* the crop of line 129 applied to Y gives back the downsampled image.
C8_MirrorPadding ==
    (pc \in {"blur_116", "blur_129", "blur_131"}) =>
        LET yDim == blr.img.h
            xDim == blr.img.w
            h2   == yDim \div 2
            w2   == xDim \div 2
        IN  /\ blr.Y.h = 2 * yDim /\ blr.Y.w = 2 * xDim
            /\ DOMAIN blr.Y.at = 0..(2 * yDim - 1)
            /\ \A r \in 0..(2 * yDim - 1) :
                 /\ DOMAIN blr.Y.at[r] = 0..(2 * xDim - 1)
                 /\ \A c \in 0..(2 * xDim - 1) :
                      /\ blr.nwrites[r][c] = 1
                      /\ blr.Y.at[r][c] # ZeroPx
                      /\ blr.Y.at[r][c]
                           = blr.img.at[Mirror(r - h2, yDim)][Mirror(c - w2, xDim)]
            /\ \A r \in 0..(yDim - 1), c \in 0..(xDim - 1) :
                   blr.Y.at[h2 + r][w2 + c] = blr.img.at[r][c]
            /\ Crop(blr.Y, yDim, xDim) = blr.img

\* A padded buffer for an odd height and an even width.
C8_Witness == pc = "blur_116" /\ blr.yDim = 3 /\ blr.xDim = 2

\* C9: each whole-image reduction (maxI and minI, Sw, max_i) is the extreme
\* of the whole image when its dependent per-pixel writes begin, no dependent
\* value is written before it, and no later step of the call changes it.
C9_ReductionState ==
    /\ pc \in {"pbf_27", "pbf_37", "pbf_38", "pbf_39", "pbf_45", "pbf_46", "pbf_47"}
         => /\ WholeMax(pbf.maxI, pbf.imageIn)
            /\ WholeMin(pbf.minI, pbf.imageIn)
    /\ pc \in {"tc_69", "tc_72", "tc_80"}
         => WholeMax(tc.Sw, Scale(QInt(5), tc.La))
    /\ pc = "ipt_129" => WholeMax(ipt.max_i, Channel(ipt.ipt_img, 0))

C9_ReductionStep ==
    /\ pc \in {"pbf_21", "pbf_24"} => (pbf'.range_pos = 0 /\ wHist' = <<>>)
    /\ pc \in {"pbf_27", "pbf_37", "pbf_38", "pbf_39", "pbf_45", "pbf_46", "pbf_47"}
         => /\ pbf'.maxI = pbf.maxI
            /\ pbf'.minI = pbf.minI
            /\ pbf'.imageIn = pbf.imageIn
    /\ pc \in {"tc_37", "tc_46", "tc_47", "tc_64", "tc_67"} => tc'.Bs = <<>>
    /\ pc \in {"tc_69", "tc_72", "tc_80"} => tc'.Sw = tc.Sw
    /\ pc = "ipt_128" => ipt'.ipt_img = ipt.ipt_img
    /\ pc \in {"ipt_129", "ipt_130", "ipt_131", "ipt_134"} => ipt'.max_i = ipt.max_i

C9_ReductionsFirst == [](C9_ReductionState) /\ [][C9_ReductionStep]_vars

\* The Bartleson writes are over, on an image with several rows whose
\* maximum is not in the first row, and max_i is still that maximum.
C9_Witness ==
    /\ pc = "ipt_134"
    /\ args.gamma = 2
    /\ Rows(ipt.ipt_img) = 2
    /\ ipt.max_i = QInt(2)
    /\ ipt.ipt_img[0][0][1] = Q(1, 8)
    /\ ipt.ipt_img[1][0][1] = QInt(2)

\* C10: after the loop of a call with inSeg >= 1, at every pixel the tent
\* weights of the inSeg+1 segments sum to 1, at most two of them, of adjacent
\* segments, are non-zero, the weight of segment j is 1 exactly when the
\* pixel equals value_j, and imageOut is the sum of the weighted responses.
C10_TentPartitionOfUnity ==
    (pc = "pbf_47" /\ pbf.inSeg >= 1) =>
        /\ Len(wHist) = pbf.inSeg + 1
        /\ \A p \in Cells(pbf.imageIn) :
             LET W(k)  == wHist[k].intW[p[1]][p[2]]
                 J(k)  == wHist[k].jJ[p[1]][p[2]]
                 px    == pbf.imageIn[p[1]][p[2]]
                 NZ    == {k \in 1..Len(wHist) : W(k) # QInt(0)}
             IN  /\ QSum([k \in 1..Len(wHist) |-> W(k)]) = QInt(1)
                 /\ Cardinality(NZ) <= 2
                 /\ \A a \in NZ, b \in NZ : a - b <= 1
                 /\ \A k \in 1..Len(wHist) :
                      (W(k) = QInt(1)) <=>
                      (px = QAdd(pbf.minI,
                                 QDiv(QMul(QInt(k - 1), QSub(pbf.maxI, pbf.minI)),
                                      QInt(pbf.inSeg))))
                 /\ pbf.imageOut[p[1]][p[2]]
                      = QSum([k \in 1..Len(wHist) |-> QMul(W(k), J(k))])

\* Three segments, and a pixel strictly between two representative
\* intensities, with weights 1/3 and 2/3.
C10_Witness ==
    /\ pc = "pbf_47"
    /\ pbf.inSeg = 2
    /\ \E p \in Cells(pbf.imageIn) :
         /\ wHist[1].intW[p[1]][p[2]] = Q(1, 3)
         /\ wHist[2].intW[p[1]][p[2]] = Q(2, 3)
         /\ wHist[3].intW[p[1]][p[2]] = QInt(0)

====
